---------------------------- MODULE Spec2Model ----------------------------
(***************************************************************************)
(* A model of the Slack event webhook of src/app.py: the handler           *)
(* slack_events with its signature check, event de-duplication, session    *)
(* pruning, event filtering, text normalisation and answer pipeline        *)
(* (date/time, curated Q&A, optional wiki lookup, generative fallback),    *)
(* and the in-memory stores processed_event_ids, conversations and         *)
(* session_timestamps.                                                     *)
(*                                                                         *)
(* Texts are TLA+ strings; TLC evaluates Len, \o, SubSeq, Head and Tail on *)
(* strings as on sequences of characters, a character being a string of    *)
(* length one.                                                             *)
(***************************************************************************)
EXTENDS Integers, Sequences, FiniteSets, TLC

(***************************************************************************)
(* Program constants.                                                      *)
(***************************************************************************)
MAX_SEEN == 2000
MAX_HISTORY == 10
SESSION_TTL_SECONDS == 60 * 30

\* get_close_matches(..., cutoff=0.65), as the fraction CutoffNum / CutoffDen.
CutoffNum == 13
CutoffDen == 20

APOLOGY == "Sorry, I had an internal error while trying to answer."

(***************************************************************************)
(* custom_qa.  The four characters of the table that are not ASCII are     *)
(* written in ASCII here (a curly apostrophe and curly quotes as ', the    *)
(* arrow as ->, the dash as -), and so are the two backquotes (as '): a    *)
(* TLA+ string is ASCII without double quote and backquote.  Python dicts  *)
(* keep insertion order; the table is a sequence of <<key, answer>> in     *)
(* that order.                                                             *)
(***************************************************************************)
custom_qa ==
  << <<"what is the leave policy",
       "Avertra provides 12 sick and 12 casual leaves annually.">>,
     <<"who do i contact for it issues",
       "Please email it.support@avertra.com or message #it-helpdesk.">>,
     <<"what is avertra's vision",
       "'Simplify Utility Innovation' is Avertra's long-term vision.">>,
     <<"how do i request an id card re-issue",
       "Use the ID Card Form from the HR Portal or type 'id card' here.">>,
     <<"where can i find the holiday calendar",
       "Visit SharePoint > HR Documents > Holiday Calendar 2025.">>,
     <<"who is the head of sap department",
       "The SAP department head is Mr. Khurram Siddique.">>,
     <<"how do i claim medical reimbursement",
       "Use the form on Intranet > Finance > Claims -> Upload bills.">>,
     <<"what is the company dress code",
       "Smart casuals on weekdays, formals on Mondays.">>,
     <<"how do i get access to sap dev system",
       "Raise a request at sapaccess@avertra.com with your manager in CC.">>,
     <<"what is the organization structure",
       "You can view the org chart in HR Portal > Org Chart.">>,
     <<"how to apply for leave",
       "Please use the following leave request form: https://docs.google.com/forms/d/e/1FAIpQLSd1GZ1Rg_7QxOD19Sgm43-OJtfG6TVBfyLo1REIosTLoH4piQ/viewform">>,
     <<"pto planner link",
       "Please access the following PTO link to apply for your leave: https://docs.google.com/spreadsheets/d/10ilz4TLd1KzsqzRTp6kvydV96-kZuN6inslLmxnx7p8/edit?gid=61543925#gid=61543925">>,
     <<"byd link",
       "https://my335994.sapbydesign.com/sap/public/ap/ui/repository/SAP_UI/HTMLOBERON5/client.html?">>,
     <<"who is the payroll vendor for avertra",
       "Payline India.">>,
     <<"what is the payroll portal link for indian employees in avertra",
       "URL: https://avertra.paylineindia.com\nLog in with your ESS credentials.">>,
     <<"what is avertra",
       "Since 2007, Avertra has been driven by one mission: to simplify life. Over the years, we've expanded our reach across many cultures and geographies, ultimately recognizing that people share core needs-from access to trusted digital services to clean water and stable power. Guided by its diverse perspectives and foundational pillars-empathy, science, strategy, and technology-we create experiences that empower communities and connect people to what matters most.">>,
     <<"what is the avertra website link",
       "https://avertra.com">>,
     <<"can you brief us on a few success stories of avertra",
       "Yes, please use the URL below to access Avertra's success stories: https://avertra.com/category/success-stories/">>,
     <<"what is the ai initiative program in the sap department",
       "The AI Initiative program in the SAP department is a strategic effort aimed at exploring and defining artificial intelligence (AI) use cases that can significantly enhance the way we work. This includes identifying opportunities where AI can improve processes, enhance customer experiences, and support smarter decision-making within SAP operations.">> >>

(***************************************************************************)
(* Strings.                                                                *)
(***************************************************************************)
Char(s, i) == SubSeq(s, i, i)

\* The printable ASCII characters in code-point order, in three runs: 32..33,
\* 35..95 and 97..126 (a TLA+ string holds neither a double quote, 34, nor a
\* backquote, 96).
AsciiLow == " !"
AsciiMid == "#$%&'()*+,-./0123456789:;<=>?@ABCDEFGHIJKLMNOPQRSTUVWXYZ[\\]^_"
AsciiHigh == "abcdefghijklmnopqrstuvwxyz{|}~"

IndexOf(c, s) ==
  IF \E i \in 1..Len(s) : Char(s, i) = c
  THEN CHOOSE i \in 1..Len(s) : Char(s, i) = c
  ELSE 0

\* ord(c); the control characters of the model (\t \n \f \r) sort below space.
Ord(c) ==
  IF IndexOf(c, AsciiLow) > 0 THEN 31 + IndexOf(c, AsciiLow)
  ELSE IF IndexOf(c, AsciiMid) > 0 THEN 34 + IndexOf(c, AsciiMid)
  ELSE IF IndexOf(c, AsciiHigh) > 0 THEN 96 + IndexOf(c, AsciiHigh)
  ELSE 0

\* str.lower() on ASCII: 'A'..'Z' (65..90) map to 'a'..'z' (97..122).
LowerChar(c) ==
  LET o == Ord(c) IN IF o >= 65 /\ o <= 90 THEN Char(AsciiHigh, o - 64) ELSE c

RECURSIVE lower(_)
lower(s) == IF s = "" THEN "" ELSE LowerChar(Head(s)) \o lower(Tail(s))

\* Python's (sub in s) on strings.
Contains(sub, s) ==
  \E i \in 1..(Len(s) - Len(sub) + 1) : SubSeq(s, i, i + Len(sub) - 1) = sub

\* Python's str < str: lexicographic by code point.
RECURSIVE StrLess(_, _)
StrLess(s, t) ==
  IF t = "" THEN FALSE
  ELSE IF s = "" THEN TRUE
  ELSE IF Head(s) = Head(t) THEN StrLess(Tail(s), Tail(t))
  ELSE Ord(Head(s)) < Ord(Head(t))

Whitespace == {" ", "\t", "\n", "\r", "\f"}

\* str.strip(): leading and trailing whitespace removed.
RECURSIVE lstrip(_)
lstrip(s) == IF s # "" /\ Head(s) \in Whitespace THEN lstrip(Tail(s)) ELSE s

RECURSIVE rstrip(_)
rstrip(s) ==
  IF s # "" /\ Char(s, Len(s)) \in Whitespace
  THEN rstrip(SubSeq(s, 1, Len(s) - 1)) ELSE s

\* A strip of the left end only.
stripLeft(s) == lstrip(s)

\* str.strip()
strip(s) == rstrip(lstrip(s))

(***************************************************************************)
(* clean_text: re.sub(r"<@[^>]+>", "", text), then strip.                  *)
(***************************************************************************)
\* The last index of a match of <@[^>]+> that starts at index 1 of s, or 0:
\* "<@", then at least one character other than ">", up to the first ">".
MentionEnd(s) ==
  IF /\ Len(s) >= 4
     /\ SubSeq(s, 1, 2) = "<@"
     /\ Char(s, 3) # ">"
     /\ \E j \in 4..Len(s) : Char(s, j) = ">"
  THEN CHOOSE j \in 4..Len(s) :
         /\ Char(s, j) = ">"
         /\ \A k \in 4..(j - 1) : Char(s, k) # ">"
  ELSE 0

RECURSIVE RemoveMentions(_)
RemoveMentions(s) ==
  IF s = "" THEN ""
  ELSE LET j == MentionEnd(s) IN
       IF j > 0 THEN RemoveMentions(SubSeq(s, j + 1, Len(s)))
       ELSE Head(s) \o RemoveMentions(Tail(s))

clean_text(text) == IF text = "" THEN "" ELSE strip(RemoveMentions(text))

(***************************************************************************)
(* looks_like_search_query and the date/time tests of slack_events.        *)
(***************************************************************************)
SearchKeywords ==
  {"who", "what", "where", "when", "how", "define", "wiki", "latest", "news", "?"}

\* A test that every text passes.
looks_like_search_queryAny(text) == \E k \in SearchKeywords \cup {""} : Contains(k, lower(text))

looks_like_search_query(text) ==
  LET t == lower(text) IN \E k \in SearchKeywords : Contains(k, t)

IsDateQuery(lc) ==
  \/ Contains("date", lc) /\ (Contains("today", lc) \/ Contains("current", lc))
  \/ strip(lc) \in {"what is today's date", "what's today's date"}

\* A time test that wants both words.
IsTimeQueryBoth(lc) ==
  Contains("time", lc) /\ Contains("now", lc) /\ Contains("current", lc)

IsTimeQuery(lc) ==
  Contains("time", lc) /\ (Contains("now", lc) \/ Contains("current", lc))

(***************************************************************************)
(* difflib.get_close_matches(word, possibilities, n=1, cutoff=0.65).       *)
(* SequenceMatcher(a = a key, b = word) without junk: autojunk applies     *)
(* only when b has 200 characters or more, and no text of the model does.  *)
(***************************************************************************)
\* The number of consecutive equal characters of a from i and b from j,
\* within a[i..ahi] and b[j..bhi].
RECURSIVE MatchLen(_, _, _, _, _, _)
MatchLen(a, b, i, j, ahi, bhi) ==
  IF i > ahi \/ j > bhi \/ Char(a, i) # Char(b, j) THEN 0
  ELSE 1 + MatchLen(a, b, i + 1, j + 1, ahi, bhi)

\* find_longest_match(alo, ahi, blo, bhi): <<i, j, k>> with a[i..i+k-1] =
\* b[j..j+k-1], k maximal, then i minimal, then j minimal (inclusive,
\* 1-based bounds here); k = 0 when no character matches.
find_longest_match(a, b, alo, ahi, blo, bhi) ==
  LET pairs == (alo..ahi) \X (blo..bhi)
      len(p) == MatchLen(a, b, p[1], p[2], ahi, bhi)
      starts == {p \in pairs : Char(a, p[1]) = Char(b, p[2])}
  IN  IF starts = {} THEN <<alo, blo, 0>>
      ELSE LET best == CHOOSE p \in starts :
                         \A q \in starts :
                           \/ len(p) > len(q)
                           \/ /\ len(p) = len(q)
                              /\ \/ p[1] < q[1]
                                 \/ p[1] = q[1] /\ p[2] <= q[2]
           IN  <<best[1], best[2], len(best)>>

\* The total size of get_matching_blocks: the longest match, then the same
\* to its left and to its right.
RECURSIVE Matches(_, _, _, _, _, _)
Matches(a, b, alo, ahi, blo, bhi) ==
  IF alo > ahi \/ blo > bhi THEN 0
  ELSE LET m == find_longest_match(a, b, alo, ahi, blo, bhi) IN
       IF m[3] = 0 THEN 0
       ELSE m[3] + Matches(a, b, alo, m[1] - 1, blo, m[2] - 1)
                 + Matches(a, b, m[1] + m[3], ahi, m[2] + m[3], bhi)

\* ratio() = 2.0 * M / T as the fraction <<2M, T>>; 1.0 when T = 0.
ratio(a, b) ==
  LET T == Len(a) + Len(b) IN
  IF T = 0 THEN <<1, 1>> ELSE <<2 * Matches(a, b, 1, Len(a), 1, Len(b)), T>>

FracLess(x, y) == x[1] * y[2] < y[1] * x[2]
FracGeq(x, y) == ~FracLess(x, y)

\* A lookup of the word itself, in place of the approximate match.
get_close_matches_exact(word, possibilities) ==
  IF word \in possibilities THEN <<word>> ELSE << >>

\* The keys whose ratio reaches the cutoff, best first: heapq.nlargest(1, ...)
\* over (score, key) takes the highest score and, among equal scores, the
\* greatest key.  The result is <<key>> or << >>.
get_close_matches(word, possibilities) ==
  LET scored == {<<ratio(x, word), x>> : x \in possibilities}
      good == {r \in scored : FracGeq(r[1], <<CutoffNum, CutoffDen>>)}
  IN  IF good = {} THEN << >>
      ELSE LET top == CHOOSE r \in good :
                        \A q \in good :
                          \/ FracLess(q[1], r[1])
                          \/ ~FracLess(r[1], q[1]) /\ ~StrLess(r[2], q[2])
           IN  <<top[2]>>

\* custom_qa.keys()
custom_qa_keys == {custom_qa[n][1] : n \in 1..Len(custom_qa)}

\* custom_qa[key]
custom_qa_get(key) ==
  LET n == CHOOSE n \in 1..Len(custom_qa) : custom_qa[n][1] = key
  IN  custom_qa[n][2]


(***************************************************************************)
(* Bounds of the model and the inputs it draws.                            *)
(***************************************************************************)
MaxRequests == 2   \* requests received in one behaviour
MaxEventId == 1    \* event identifiers 1..MaxEventId; 0 is an absent one
NumHandlers == 2   \* request threads

Handlers == 1..NumHandlers
EventIds == 1..MaxEventId

\* The readings of the clock: the start, and the instants at which a session
\* last touched at 0 or at 1 is TTL - 1, TTL or TTL + 1 seconds old.
Instants == {1, SESSION_TTL_SECONDS, SESSION_TTL_SECONDS + 1}

\* Identifiers recorded before the behaviour starts.  They differ from every
\* identifier a request of the behaviour carries and are interchangeable.
FillerBase == 1000
FillerIds(n) == {FillerBase + i : i \in 1..n}

\* The event of a payload: its fields as read by slack_events, with "" for
\* an absent (or otherwise falsy) field.  NoEvent is an absent or empty event.
Event(type, channel_type, channel, channel_id, user, bot_id, subtype) ==
  [type |-> type, channel_type |-> channel_type, channel |-> channel,
   channel_id |-> channel_id, user |-> user, bot_id |-> bot_id,
   subtype |-> subtype]

NoEvent == Event("", "", "", "", "", "", "")

Events ==
  { NoEvent,
    Event("app_mention", "", "C1", "", "U1", "", ""),
    Event("message", "im", "", "", "U1", "", ""),
    Event("app_mention", "", "C1", "", "U1", "B1", ""),
    Event("message", "im", "", "", "U1", "", "bot_message"),
    Event("message", "im", "", "", "U1", "", "message_changed"),
    Event("message", "channel", "C1", "", "U1", "", ""),
    Event("reaction_added", "", "C1", "", "U1", "", "") }

\* The raw text of an event ("" also stands for an absent text).
RawTexts ==
  { "",
    "<@U1> ",
    "<@U1> what's today's date",
    "time now",
    "What is the leave policy?",
    "pto planner link current date",
    "who am i",
    "hello" }

\* What the generative provider returns as the message content.
GenOutputs == {" ok\n"}

\* What wiki_summary returns; "" stands for None.
WikiResults == {"", "Wikipedia summary for 'I':\nI is a letter.\nSource: https://en.wikipedia.org/wiki/I"}

Challenges == {"abc123"}

\* The pure functions of the text, evaluated once for each text of the model:
\* clean_text of the raw text, and of the cleaned text its lower case, the
\* date and time tests, get_close_matches(lc, custom_qa.keys(), n=1,
\* cutoff=0.65) and looks_like_search_query.
cleaned == [t \in RawTexts |-> clean_text(t)]

facts ==
  [c \in {clean_text(t) : t \in RawTexts} |->
     LET lc == lower(c) IN
     [date |-> IsDateQuery(lc),
      time |-> IsTimeQuery(lc),
      match |-> get_close_matches(lc, custom_qa_keys),
      search |-> looks_like_search_query(c)]]

(***************************************************************************)
(* Dicts and lists.                                                        *)
(***************************************************************************)
EmptyDict == [k \in {} |-> 0]
Put(d, k, v) == [x \in (DOMAIN d) \cup {k} |-> IF x = k THEN v ELSE d[x]]
Pop(d, k) == [x \in (DOMAIN d) \ {k} |-> d[x]]
Get(d, k, default) == IF k \in DOMAIN d THEN d[k] ELSE default

\* s[-n:]
LastN(s, n) == IF Len(s) > n THEN SubSeq(s, Len(s) - n + 1, Len(s)) ELSE s

Entry(role, content) == [role |-> role, content |-> content]

\* A history of MAX_HISTORY entries left by five earlier answered turns,
\* and one left by a single turn.
FullHistory ==
  [i \in 1..MAX_HISTORY |->
     IF i % 2 = 1 THEN Entry("user", IF i = 1 THEN "who am i" ELSE "hello")
     ELSE Entry("assistant", "ok")]

ShortHistory == <<Entry("user", "hello"), Entry("assistant", "ok")>>

(***************************************************************************)
(* State.                                                                  *)
(***************************************************************************)
VARIABLES
  now,                  \* datetime.now().timestamp(), in whole seconds
  processed_event_ids,  \* the set of recorded event identifiers
  conversations,        \* channel_id -> list of entries
  session_timestamps,   \* channel_id -> last activity
  WIKI_LOOKUP_ENABLED,  \* the environment's flag, fixed at start
  hs,                   \* the request threads: position and locals
  requests,             \* requests received so far
  deliveries,           \* event id -> chat_postMessage calls made for it
  evicted               \* the event ids ever popped from processed_event_ids

vars == <<now, processed_event_ids, conversations, session_timestamps,
          WIKI_LOOKUP_ENABLED, hs, requests, deliveries, evicted>>

stores == <<processed_event_ids, conversations, session_timestamps>>

\* A thread that handles no request.  pre is the stores as they were when
\* the request was received.
Idle ==
  [pc |-> "idle", status |-> 0, body |-> "", route |-> "", source |-> "",
   signature |-> "", type |-> "", challenge |-> "", event_id |-> 0,
   event |-> NoEvent, channel_id |-> "", user_text |-> "", cleaned_text |-> "",
   wiki_ctx |-> "",
   hist0 |-> << >>, hist |-> << >>, messages |-> << >>,
   content |-> "", assistant_text |-> "", response_text |-> "",
   now_ts |-> 0, iter_len |-> 0, to_delete |-> {},
   posts |-> << >>, gens |-> 0, wikis |-> 0,
   pre |-> [ids |-> {}, conv |-> EmptyDict, ts |-> EmptyDict]]

InFlight(h) == hs[h].pc \notin {"idle", "done"}

\* The process has just started, or it has run for a while: MAX_SEEN
\* identifiers are recorded, conversation C1 holds a full history last
\* touched at 0 and conversation U1 a short one last touched at 1.
Init ==
  /\ now = 1
  /\ \E warm \in BOOLEAN :
       /\ processed_event_ids = IF warm THEN FillerIds(MAX_SEEN) ELSE {}
       /\ conversations = IF warm THEN Put(Put(EmptyDict, "C1", FullHistory),
                                          "U1", ShortHistory)
                          ELSE EmptyDict
       /\ session_timestamps = IF warm THEN Put(Put(EmptyDict, "C1", 0), "U1", 1)
                               ELSE EmptyDict
  /\ WIKI_LOOKUP_ENABLED \in BOOLEAN
  /\ hs = [h \in Handlers |-> Idle]
  /\ requests = 0
  /\ deliveries = [e \in EventIds |-> 0]
  /\ evicted = {}

\* The thread's locals changed; it returns with the given status and body.
Respond(me, status, body, route) ==
  [me EXCEPT !.pc = "done", !.status = status, !.body = body, !.route = route]

Set(h, rec) == hs' = [hs EXCEPT ![h] = rec]

(***************************************************************************)
(* The clock.                                                              *)
(***************************************************************************)
Tick ==
  /\ \E t \in Instants : t > now /\ now' = t
  /\ UNCHANGED <<stores, WIKI_LOOKUP_ENABLED, hs, requests, deliveries, evicted>>

(***************************************************************************)
(* slack_events, one action per step between two accesses to the shared    *)
(* stores.  A field of the request is drawn when the handler first reads   *)
(* it: a handler that returns before it reads a field does the same for    *)
(* every value of that field.                                              *)
(***************************************************************************)
\* Flask hands a request to thread h.
Receive(h) ==
  /\ hs[h].pc = "idle"
  /\ requests < MaxRequests
  /\ requests' = requests + 1
  /\ Set(h, [Idle EXCEPT !.pc = "verify",
                         !.pre = [ids |-> processed_event_ids,
                                  conv |-> conversations,
                                  ts |-> session_timestamps]])
  /\ UNCHANGED <<now, stores, WIKI_LOOKUP_ENABLED, deliveries, evicted>>

\* A check that lets the exception of is_valid_request pass.
RejectedIfFalse(outcome) == outcome = "invalid"

\* What is_valid_request does: it returns True, returns False or raises.
SignatureOutcomes == {"valid", "invalid", "raises"}

\* "if not is_valid_request(...)" and "except Exception": both return 400.
Rejected(outcome) == outcome \in {"invalid", "raises"}

\* The signature check.
Verify(h) ==
  /\ hs[h].pc = "verify"
  /\ \E outcome \in SignatureOutcomes :
       LET me == [hs[h] EXCEPT !.signature = outcome] IN
       Set(h, IF ~Rejected(outcome) THEN [me EXCEPT !.pc = "parse"]
              ELSE Respond(me, 400,
                           IF outcome = "invalid" THEN "Invalid signature"
                           ELSE "Verification error",
                           "bad_signature"))
  /\ UNCHANGED <<now, stores, WIKI_LOOKUP_ENABLED, requests, deliveries,
                 evicted>>

\* A test for another type name.
IsUrlVerificationNever(type) == type = "url_verify"

\* payload.get("type") == "url_verification"
IsUrlVerification(type) == type = "url_verification"

\* jsonify({"challenge": challenge}): the JSON text, its double quotes
\* written as single ones.
Jsonify(challenge) == "{'challenge':'" \o challenge \o "'}"

\* payload = request.json; the url_verification handshake.
UrlVerification(h) ==
  /\ hs[h].pc = "parse"
  /\ \E type \in {"event_callback", "url_verification"} :
       LET me == [hs[h] EXCEPT !.type = type] IN
       IF IsUrlVerification(type)
       THEN \E challenge \in Challenges :
              Set(h, Respond([me EXCEPT !.challenge = challenge], 200,
                             Jsonify(challenge), "challenge"))
       ELSE Set(h, [me EXCEPT !.pc = "dedup"])
  /\ UNCHANGED <<now, stores, WIKI_LOOKUP_ENABLED, requests, deliveries,
                 evicted>>

\* A membership test that finds nothing.
IsDuplicateNever(event_id, ids) == event_id \in {}

\* event_id in processed_event_ids
IsDuplicate(event_id, ids) == event_id \in ids

\* event_id = payload.get("event_id") and the membership test.
DedupTest(h) ==
  /\ hs[h].pc = "dedup"
  /\ \E event_id \in {0} \cup EventIds :
       LET me == [hs[h] EXCEPT !.event_id = event_id] IN
       Set(h, IF event_id = 0 THEN [me EXCEPT !.pc = "prune"]
              ELSE IF IsDuplicate(event_id, processed_event_ids)
              THEN Respond(me, 200, "", "duplicate")
              ELSE [me EXCEPT !.pc = "record"])
  /\ UNCHANGED <<now, stores, WIKI_LOOKUP_ENABLED, requests, deliveries,
                 evicted>>

\* A single pop() in place of the loop.
EvictionsOne(ids) ==
  LET fillers == ids \ EventIds
  IN  {{x} : x \in ids \cap EventIds}
        \cup {{x \in fillers : x = FillerBase + Cardinality(fillers)}}

\* What "while len(processed_event_ids) > MAX_SEEN // 2: pop()" may remove
\* from ids: set.pop() takes an arbitrary element, so any choice E of the
\* behaviour's own identifiers goes, with as many of the (interchangeable)
\* filler identifiers as make up the number.
Evictions(ids) ==
  LET k == Cardinality(ids) - (MAX_SEEN \div 2)
      own == ids \cap EventIds
      fillers == ids \ EventIds
  IN  { E \cup {x \in fillers :
                  x > FillerBase + Cardinality(fillers) - (k - Cardinality(E))} :
        E \in SUBSET own }

\* processed_event_ids.add(event_id), and the eviction on overflow.
DedupAdd(h) ==
  /\ hs[h].pc = "record"
  /\ LET added == processed_event_ids \cup {hs[h].event_id} IN
       IF Cardinality(added) > MAX_SEEN
       THEN \E gone \in Evictions(added) :
              /\ processed_event_ids' = added \ gone
              /\ evicted' = evicted \cup (gone \cap EventIds)
       ELSE /\ processed_event_ids' = added
            /\ evicted' = evicted
  /\ Set(h, [hs[h] EXCEPT !.pc = "prune"])
  /\ UNCHANGED <<now, conversations, session_timestamps, WIKI_LOOKUP_ENABLED,
                 requests, deliveries>>

(***************************************************************************)
(* prune_inactive_sessions.                                                *)
(***************************************************************************)
\* now_ts = datetime.now().timestamp(); the iteration over
\* session_timestamps.items() starts.
PruneStart(h) ==
  /\ hs[h].pc = "prune"
  /\ Set(h, [hs[h] EXCEPT !.pc = "prune_scan", !.now_ts = now,
                          !.iter_len = Cardinality(DOMAIN session_timestamps)])
  /\ UNCHANGED <<now, stores, WIKI_LOOKUP_ENABLED, requests, deliveries,
                 evicted>>

\* An expiry with its operands exchanged.
ExpiredSwapped(ts, now_ts) == ts - now_ts > SESSION_TTL_SECONDS

\* An expiry that starts at the TTL itself.
ExpiredAtTTL(ts, now_ts) == now_ts - ts >= SESSION_TTL_SECONDS

\* now_ts - ts > SESSION_TTL_SECONDS
Expired(ts, now_ts) == now_ts - ts > SESSION_TTL_SECONDS

\* The iteration: a dict whose size changed since the iteration started
\* raises RuntimeError, which nothing catches (Flask answers 500).
PruneScan(h) ==
  /\ hs[h].pc = "prune_scan"
  /\ IF Cardinality(DOMAIN session_timestamps) # hs[h].iter_len
     THEN Set(h, Respond(hs[h], 500, "", "crashed"))
     ELSE LET to_delete == {ch \in DOMAIN session_timestamps :
                              Expired(session_timestamps[ch], hs[h].now_ts)}
          IN  Set(h, [hs[h] EXCEPT !.to_delete = to_delete,
                        !.pc = IF to_delete = {} THEN "filter" ELSE "prune_pop"])
  /\ UNCHANGED <<now, stores, WIKI_LOOKUP_ENABLED, requests, deliveries,
                 evicted>>

\* One round of "for ch in to_delete": both pops.
PrunePop(h) ==
  /\ hs[h].pc = "prune_pop"
  /\ \E ch \in hs[h].to_delete :
       /\ session_timestamps' = Pop(session_timestamps, ch)
       /\ conversations' = Pop(conversations, ch)
       /\ Set(h, [hs[h] EXCEPT !.to_delete = @ \ {ch},
                    !.pc = IF hs[h].to_delete = {ch} THEN "filter" ELSE "prune_pop"])
  /\ UNCHANGED <<now, processed_event_ids, WIKI_LOOKUP_ENABLED, requests,
                 deliveries, evicted>>

(***************************************************************************)
(* The event filter and the text.                                          *)
(***************************************************************************)
\* Python's "a or b or c" on strings.
Or3(a, b, c) == IF a # "" THEN a ELSE IF b # "" THEN b ELSE c

\* A filter that looks at bot_id alone.
IsBotOrEditNoSubtype(event) == event.bot_id # ""

\* event.get("bot_id") or event.get("subtype") in ["bot_message", "message_changed"]
IsBotOrEdit(event) ==
  event.bot_id # "" \/ event.subtype \in {"bot_message", "message_changed"}

IsRouted(event) ==
  \/ event.type = "app_mention"
  \/ event.type = "message" /\ event.channel_type = "im"

\* event = payload.get("event", {}) and the three early returns on it.
Filter(h, events) ==
  /\ hs[h].pc = "filter"
  /\ \E event \in events :
       LET channel_id == Or3(event.channel, event.channel_id, event.user)
           me == [hs[h] EXCEPT !.event = event]
       IN
       Set(h, IF event = NoEvent THEN Respond(me, 200, "", "no_event")
              ELSE IF IsBotOrEdit(event) THEN Respond(me, 200, "", "ignored_bot")
              ELSE IF ~IsRouted(event) THEN Respond(me, 200, "", "ignored_type")
              ELSE [me EXCEPT !.pc = "text", !.channel_id = channel_id])
  /\ UNCHANGED <<now, stores, WIKI_LOOKUP_ENABLED, requests, deliveries,
                 evicted>>

\* A test for None in place of the test for an empty text.
IsEmptyTextIfNone(cleaned_text) == cleaned_text = "None"

\* not cleaned_text
IsEmptyText(cleaned_text) == cleaned_text = ""

\* cleaned_text = clean_text(event.get("text", "")); nothing to do when empty.
Text(h, texts) ==
  /\ hs[h].pc = "text"
  /\ \E user_text \in texts :
       LET cleaned_text == cleaned[user_text]
           me == [hs[h] EXCEPT !.user_text = user_text]
       IN
       Set(h, IF IsEmptyText(cleaned_text) THEN Respond(me, 200, "", "empty_text")
              ELSE [me EXCEPT !.pc = "touch", !.cleaned_text = cleaned_text])
  /\ UNCHANGED <<now, stores, WIKI_LOOKUP_ENABLED, requests, deliveries,
                 evicted>>

\* A touch that refreshes the sessions that exist and starts none.
TouchSessionExisting(ts, channel_id, t) ==
  IF channel_id \in DOMAIN ts THEN Put(ts, channel_id, t) ELSE ts

\* session_timestamps[channel_id] = t
TouchSession(ts, channel_id, t) == Put(ts, channel_id, t)

\* session_timestamps[channel_id] = datetime.now().timestamp()
Touch(h) ==
  /\ hs[h].pc = "touch"
  /\ session_timestamps' = TouchSession(session_timestamps, hs[h].channel_id, now)
  /\ Set(h, [hs[h] EXCEPT !.pc = "answer"])
  /\ UNCHANGED <<now, processed_event_ids, conversations, WIKI_LOOKUP_ENABLED,
                 requests, deliveries, evicted>>

(***************************************************************************)
(* The answer pipeline.                                                    *)
(***************************************************************************)
\* strftime('%B %d, %Y') shows the day and strftime('%I:%M %p') the minute
\* of the day; the model shows them as numbers.
DateReply(t) == "Today's date is " \o ToString(t \div 86400) \o "."
TimeReply(t) == "The current time is " \o ToString((t \div 60) % 1440) \o "."

\* Date/time, then the curated table, then the wiki lookup of the
\* generative path.
Answer(h) ==
  /\ hs[h].pc = "answer"
  /\ LET me == hs[h]
         is == facts[me.cleaned_text]
         match == is.match
         lookup == WIKI_LOOKUP_ENABLED /\ is.search
     IN  IF is.date
         THEN Set(h, [me EXCEPT !.pc = "send", !.source = "date",
                                !.response_text = DateReply(now)])
         ELSE IF is.time
         THEN Set(h, [me EXCEPT !.pc = "send", !.source = "time",
                                !.response_text = TimeReply(now)])
         ELSE IF match # << >>
         THEN Set(h, [me EXCEPT !.pc = "send", !.source = "curated",
                                !.response_text = custom_qa_get(match[1])])
         ELSE \E wiki_ctx \in IF lookup THEN WikiResults ELSE {""} :
                Set(h, [me EXCEPT !.pc = "history", !.wiki_ctx = wiki_ctx,
                                  !.wikis = IF lookup THEN @ + 1 ELSE @])
  /\ UNCHANGED <<now, stores, WIKI_LOOKUP_ENABLED, requests, deliveries,
                 evicted>>

\* hist = conversations.get(channel_id, []); hist.append(user entry): the
\* stored list, when there is one, is the list appended to.
HistAppend(h) ==
  /\ hs[h].pc = "history"
  /\ LET me == hs[h]
         hist0 == Get(conversations, me.channel_id, << >>)
         hist == Append(hist0, Entry("user", me.cleaned_text))
     IN  /\ conversations' = IF me.channel_id \in DOMAIN conversations
                             THEN Put(conversations, me.channel_id, hist)
                             ELSE conversations
         /\ Set(h, [me EXCEPT !.pc = "store", !.hist0 = hist0, !.hist = hist])
  /\ UNCHANGED <<now, processed_event_ids, session_timestamps,
                 WIKI_LOOKUP_ENABLED, requests, deliveries, evicted>>

SystemPrompt(t, wiki_ctx) ==
  "You are a helpful assistant. Always be accurate and prefer saying 'I don't know' if you are not sure."
  \o "\n" \o "Current date and time (server): " \o ToString(t)
  \o "\n" \o "If you use external facts supplied in the context, cite the source when possible."
  \o (IF wiki_ctx # ""
      THEN "\n" \o "Context from Wikipedia (do not hallucinate beyond this):"
           \o "\n" \o wiki_ctx
      ELSE "")

\* No trimming, and a trimming that keeps the oldest entries.
TrimHistoryNone(hist) == hist

TrimHistoryFirst(hist) ==
  IF Len(hist) > MAX_HISTORY THEN SubSeq(hist, 1, MAX_HISTORY) ELSE hist

\* hist[-MAX_HISTORY:]
TrimHistory(hist) == LastN(hist, MAX_HISTORY)

\* hist = hist[-MAX_HISTORY:]; conversations[channel_id] = hist; the system
\* prompt and the messages list.
HistStore(h) ==
  /\ hs[h].pc = "store"
  /\ LET me == hs[h]
         hist == TrimHistory(me.hist)
     IN  /\ conversations' = Put(conversations, me.channel_id, hist)
         /\ Set(h, [me EXCEPT !.pc = "generate", !.hist = hist,
                      !.messages = <<Entry("system", SystemPrompt(now, me.wiki_ctx))>>
                                   \o hist])
  /\ UNCHANGED <<now, processed_event_ids, session_timestamps,
                 WIKI_LOOKUP_ENABLED, requests, deliveries, evicted>>

\* openai.ChatCompletion.create(...): it returns a completion, or the call
\* (or reading the completion) raises and the apology is the answer.
Generate(h) ==
  /\ hs[h].pc = "generate"
  /\ \E content \in GenOutputs \cup {"<raises>"} :
       Set(h, IF content = "<raises>"
              THEN [hs[h] EXCEPT !.pc = "send", !.gens = @ + 1,
                                 !.source = "gen_failed",
                                 !.response_text = APOLOGY]
              ELSE [hs[h] EXCEPT !.pc = "append", !.gens = @ + 1,
                                 !.source = "generated",
                                 !.content = content,
                                 !.assistant_text = strip(content),
                                 !.response_text = strip(content)])
  /\ UNCHANGED <<now, stores, WIKI_LOOKUP_ENABLED, requests, deliveries,
                 evicted>>

\* The KeyError of conversations[channel_id] is caught by "except Exception".
Failed(me) ==
  [me EXCEPT !.pc = "send", !.source = "gen_failed", !.response_text = APOLOGY]

\* conversations[channel_id].append(assistant entry)
GenAppend(h) ==
  /\ hs[h].pc = "append"
  /\ LET me == hs[h] IN
       IF me.channel_id \notin DOMAIN conversations
       THEN Set(h, Failed(me)) /\ UNCHANGED conversations
       ELSE /\ conversations' =
                 Put(conversations, me.channel_id,
                     Append(conversations[me.channel_id],
                            Entry("assistant", me.assistant_text)))
            /\ Set(h, [me EXCEPT !.pc = "trim"])
  /\ UNCHANGED <<now, processed_event_ids, session_timestamps,
                 WIKI_LOOKUP_ENABLED, requests, deliveries, evicted>>

\* conversations[channel_id] = conversations[channel_id][-MAX_HISTORY:]
GenTrim(h) ==
  /\ hs[h].pc = "trim"
  /\ LET me == hs[h] IN
       IF me.channel_id \notin DOMAIN conversations
       THEN Set(h, Failed(me)) /\ UNCHANGED conversations
       ELSE /\ conversations' =
                 Put(conversations, me.channel_id,
                     TrimHistory(conversations[me.channel_id]))
            /\ Set(h, [me EXCEPT !.pc = "refresh"])
  /\ UNCHANGED <<now, processed_event_ids, session_timestamps,
                 WIKI_LOOKUP_ENABLED, requests, deliveries, evicted>>

\* session_timestamps[channel_id] = datetime.now().timestamp()
GenTouch(h) ==
  /\ hs[h].pc = "refresh"
  /\ session_timestamps' = TouchSession(session_timestamps, hs[h].channel_id, now)
  /\ Set(h, [hs[h] EXCEPT !.pc = "send"])
  /\ UNCHANGED <<now, processed_event_ids, conversations, WIKI_LOOKUP_ENABLED,
                 requests, deliveries, evicted>>

\* A delivery that is tried again when it fails.
PostMessageRetry(channel_id, response_text, outcome) ==
  LET call == [channel |-> channel_id, text |-> response_text, outcome |-> outcome]
  IN  IF outcome = "SlackApiError" THEN <<call, call>> ELSE <<call>>

\* The calls of chat_postMessage made for one answer, as <<channel, text,
\* outcome>> records: one call, whether it succeeds or raises SlackApiError
\* (which is logged).
PostMessage(channel_id, response_text, outcome) ==
  <<[channel |-> channel_id, text |-> response_text, outcome |-> outcome]>>

\* client.chat_postMessage(channel=channel_id, text=response_text); then 200.
Send(h) ==
  /\ hs[h].pc = "send"
  /\ \E outcome \in {"ok", "SlackApiError"} :
       LET calls == PostMessage(hs[h].channel_id, hs[h].response_text, outcome) IN
       /\ Set(h, [Respond(hs[h], 200, "", "answered") EXCEPT !.posts = @ \o calls])
       /\ deliveries' = IF hs[h].event_id = 0 THEN deliveries
                        ELSE [deliveries EXCEPT ![hs[h].event_id] = @ + Len(calls)]
  /\ UNCHANGED <<now, stores, WIKI_LOOKUP_ENABLED, requests, evicted>>

\* The response goes out and the thread is free again.
Return(h) ==
  /\ hs[h].pc = "done"
  /\ Set(h, Idle)
  /\ UNCHANGED <<now, stores, WIKI_LOOKUP_ENABLED, requests, deliveries,
                 evicted>>

\* A step of thread h, its events and texts drawn from the given sets.
Step(h, events, texts) ==
  \/ Verify(h) \/ UrlVerification(h) \/ DedupTest(h) \/ DedupAdd(h)
  \/ PruneStart(h) \/ PruneScan(h) \/ PrunePop(h)
  \/ Filter(h, events) \/ Text(h, texts) \/ Touch(h) \/ Answer(h)
  \/ HistAppend(h) \/ HistStore(h) \/ Generate(h)
  \/ GenAppend(h) \/ GenTrim(h) \/ GenTouch(h)
  \/ Send(h) \/ Return(h)

(***************************************************************************)
(* Spec: the requests are handled one after another (thread 1 alone), from *)
(* a process that has just started or has run for a while.                 *)
(*                                                                         *)
(* SpecConc: the threads of Flask's threaded server interleave at every    *)
(* step that reads or writes the stores or the clock.  The process has     *)
(* open sessions and no recorded identifier, the lookup is enabled, and    *)
(* the events are the two routed ones (of conversations C1 and U1) with a  *)
(* text of the generative path, a date/time text or no text.               *)
(***************************************************************************)
ReceiveNext == \A h \in Handlers : hs[h].pc = "idle" /\ Receive(1)

\* The free thread of lowest number takes the request: threads are alike.
ReceiveAny ==
  \E h \in Handlers : Receive(h) /\ \A g \in Handlers : g < h => hs[g].pc # "idle"

\* A thread whose next step reads and writes its locals only, neither the
\* stores nor the clock.  Such a step commutes with every step of the other
\* threads and of the clock, so it is taken before they move on.
Local(h) == hs[h].pc \in {"verify", "parse", "filter", "text", "generate"}

Scheduled(h) == \A g \in Handlers \ {h} : ~Local(g)

NoneLocal == \A g \in Handlers : ~Local(g)

Next == Tick \/ ReceiveNext \/ Step(1, Events, RawTexts)

ConcEvents == {e \in Events : ~IsBotOrEdit(e) /\ IsRouted(e)}

ConcTexts == {"", "time now", "hello"}

InitConc ==
  /\ now = 1
  /\ processed_event_ids = {}
  /\ conversations = Put(Put(EmptyDict, "C1", FullHistory), "U1", ShortHistory)
  /\ session_timestamps = Put(Put(EmptyDict, "C1", 0), "U1", 1)
  /\ WIKI_LOOKUP_ENABLED = TRUE
  /\ hs = [h \in Handlers |-> Idle]
  /\ requests = 0
  /\ deliveries = [e \in EventIds |-> 0]
  /\ evicted = {}

NextConc ==
  \/ NoneLocal /\ Tick
  \/ NoneLocal /\ ReceiveAny
  \/ \E h \in Handlers : Scheduled(h) /\ Step(h, ConcEvents, ConcTexts)

Spec == Init /\ [][Next]_vars

SpecConc == InitConc /\ [][NextConc]_vars

(***************************************************************************)
(* Properties.  A thread at "done" has computed its response and has not   *)
(* yet handed it back: its locals tell what the request did.               *)
(***************************************************************************)
Done(h) == hs[h].pc = "done"

\* The request of thread h changed neither conversations nor
\* session_timestamps, and called nothing outside.
NoSessionEffect(h) ==
  /\ conversations = hs[h].pre.conv
  /\ session_timestamps = hs[h].pre.ts
  /\ hs[h].posts = << >>
  /\ hs[h].gens = 0
  /\ hs[h].wikis = 0

\* The thread handled an accepted event whose normalized text is not empty.
Accepted(h) == hs[h].cleaned_text # ""

\* The keys whose similarity to the lowercased text reaches the cutoff, and
\* the best of them, for each normalized text of the model.
SimilarKeys ==
  [c \in DOMAIN facts |->
     {k \in custom_qa_keys :
        FracGeq(ratio(k, lower(c)), <<CutoffNum, CutoffDen>>)}]

BestKeys ==
  [c \in DOMAIN facts |->
     {k \in SimilarKeys[c] :
        \A q \in SimilarKeys[c] :
          ~FracLess(ratio(k, lower(c)), ratio(q, lower(c)))}]

IsDateTime(h) ==
  facts[hs[h].cleaned_text].date \/ facts[hs[h].cleaned_text].time

\* C1: requests handled one after another: a request whose event_id is not
\* empty and was recorded when the request arrived returns 200, sends no
\* reply, calls neither the generative nor the lookup provider and leaves
\* conversations and session_timestamps as they were; and an event_id that
\* was never evicted gets at most one delivery attempt.
C1_DuplicateDropped ==
  /\ \A h \in Handlers :
       Done(h) /\ hs[h].event_id # 0 /\ hs[h].event_id \in hs[h].pre.ids
         => /\ hs[h].status = 200
            /\ hs[h].body = ""
            /\ NoSessionEffect(h)
            /\ processed_event_ids = hs[h].pre.ids
  /\ \A e \in EventIds : e \notin evicted => deliveries[e] <= 1

\* The second of two requests with the same event_id has been dropped, and
\* the first one was answered.
C1_Witness ==
  \E h \in Handlers :
    /\ Done(h) /\ hs[h].event_id # 0 /\ hs[h].event_id \in hs[h].pre.ids
    /\ hs[h].route = "duplicate"
    /\ deliveries[hs[h].event_id] = 1
    /\ requests = 2

\* C2: when no request is being handled, every list stored in conversations
\* has at most MAX_HISTORY entries.
C2_HistoryBounded ==
  (\A h \in Handlers : ~InFlight(h))
    => \A ch \in DOMAIN conversations : Len(conversations[ch]) <= MAX_HISTORY

\* A generated turn on a conversation that already held MAX_HISTORY entries
\* has finished: two entries went in and two were trimmed away.
C2_Witness ==
  \E h \in Handlers :
    /\ Done(h) /\ hs[h].source = "generated"
    /\ Len(hs[h].hist0) = MAX_HISTORY
    /\ hs[h].channel_id \in DOMAIN conversations
    /\ Len(conversations[hs[h].channel_id]) = MAX_HISTORY
    /\ conversations[hs[h].channel_id][MAX_HISTORY]
         = Entry("assistant", hs[h].assistant_text)

\* C3: when the generative call raises, the reply is the apology and the
\* history stored for the conversation is the one the handler found: the
\* failed turn leaves no entry.
C3_FailedTurnLeavesNoEntry ==
  \A h \in Handlers :
    Done(h) /\ hs[h].source = "gen_failed"
      => /\ Len(hs[h].posts) = 1
         /\ hs[h].posts[1].text = APOLOGY
         /\ Get(conversations, hs[h].channel_id, << >>) = hs[h].hist0

\* C4: an accepted event whose normalized text is not a date/time query and
\* is similar enough to a curated key is answered with the stored answer of
\* a best-matching key, and no generative call is made.
C4_CuratedAnswer ==
  \A h \in Handlers :
    Done(h) /\ Accepted(h) /\ ~IsDateTime(h)
            /\ SimilarKeys[hs[h].cleaned_text] # {}
      => /\ hs[h].gens = 0
         /\ Len(hs[h].posts) = 1
         /\ \E n \in 1..Len(custom_qa) :
              /\ custom_qa[n][1] \in BestKeys[hs[h].cleaned_text]
              /\ hs[h].posts[1].text = custom_qa[n][2]

\* A text that is close to a key without being the key has got the key's
\* answer.
C4_Witness ==
  \E h \in Handlers :
    /\ Done(h) /\ Accepted(h) /\ ~IsDateTime(h)
    /\ SimilarKeys[hs[h].cleaned_text] # {}
    /\ lower(hs[h].cleaned_text) \notin custom_qa_keys
    /\ hs[h].source = "curated"
    /\ Len(hs[h].posts) = 1
    /\ hs[h].posts[1].text
         = "Avertra provides 12 sick and 12 casual leaves annually."

\* C4 as stated, for every text similar enough to a curated key, date/time
\* queries included.
C4_AsStated ==
  \A h \in Handlers :
    Done(h) /\ Accepted(h) /\ SimilarKeys[hs[h].cleaned_text] # {}
      => /\ hs[h].gens = 0
         /\ Len(hs[h].posts) = 1
         /\ \E n \in 1..Len(custom_qa) :
              /\ custom_qa[n][1] \in BestKeys[hs[h].cleaned_text]
              /\ hs[h].posts[1].text = custom_qa[n][2]

\* C5: requests handled one after another: an accepted event whose
\* normalized text is similar enough to no curated key and is not a
\* date/time query makes exactly one generative call, and the last of the
\* messages passed to it is the user entry of the normalized text.
C5_OneGenerativeCall ==
  \A h \in Handlers :
    Done(h) /\ Accepted(h) /\ ~IsDateTime(h)
            /\ SimilarKeys[hs[h].cleaned_text] = {}
      => /\ hs[h].gens = 1
         /\ hs[h].messages # << >>
         /\ hs[h].messages[Len(hs[h].messages)]
              = Entry("user", hs[h].cleaned_text)

\* The call was made for a conversation that already held MAX_HISTORY
\* entries.
C5_Witness ==
  \E h \in Handlers :
    /\ Done(h) /\ Accepted(h) /\ ~IsDateTime(h)
    /\ SimilarKeys[hs[h].cleaned_text] = {}
    /\ Len(hs[h].hist0) = MAX_HISTORY
    /\ hs[h].gens = 1
    /\ Len(hs[h].messages) = MAX_HISTORY + 1

\* C6: a request whose signature check returned False or raised is answered
\* 400 at once, and nothing else happened: the three stores are as they
\* were, and no lookup, generative call or delivery was made.
C6_BadSignatureNoEffect ==
  \A h \in Handlers :
    hs[h].signature \in {"invalid", "raises"}
      => /\ Done(h)
         /\ hs[h].status = 400
         /\ processed_event_ids = hs[h].pre.ids
         /\ NoSessionEffect(h)

\* The check raised while a session was due for pruning.
C6_Witness ==
  \E h \in Handlers :
    /\ Done(h) /\ hs[h].signature = "raises"
    /\ hs[h].status = 400 /\ hs[h].body = "Verification error"
    /\ \E ch \in DOMAIN session_timestamps :
         now - session_timestamps[ch] > SESSION_TTL_SECONDS

\* C9: when the prune pass of a request has run with the clock reading
\* now_ts, every conversation whose timestamp was more than
\* SESSION_TTL_SECONDS old is gone from both dicts, and every other one has
\* the timestamp and the history it had.
C9_PruneExactlyExpired ==
  \A h \in Handlers :
    hs[h].pc = "filter"
      => \A ch \in DOMAIN hs[h].pre.ts :
           IF hs[h].now_ts - hs[h].pre.ts[ch] > SESSION_TTL_SECONDS
           THEN /\ ch \notin DOMAIN session_timestamps
                /\ ch \notin DOMAIN conversations
           ELSE /\ ch \in DOMAIN session_timestamps
                /\ session_timestamps[ch] = hs[h].pre.ts[ch]
                /\ (ch \in DOMAIN conversations) = (ch \in DOMAIN hs[h].pre.conv)
                /\ Get(conversations, ch, << >>) = Get(hs[h].pre.conv, ch, << >>)

\* One pass removed a conversation and kept another whose age was exactly
\* SESSION_TTL_SECONDS.
C9_Witness ==
  \E h \in Handlers :
    /\ hs[h].pc = "filter"
    /\ \E gone \in DOMAIN hs[h].pre.conv :
         /\ hs[h].now_ts - hs[h].pre.ts[gone] > SESSION_TTL_SECONDS
         /\ gone \notin DOMAIN conversations
    /\ \E kept \in DOMAIN conversations :
         /\ kept \in DOMAIN hs[h].pre.ts
         /\ hs[h].now_ts - hs[h].pre.ts[kept] = SESSION_TTL_SECONDS

\* C10: an accepted event with a normalized text that is not empty gets one
\* call of chat_postMessage, to its own conversation and with the answer,
\* whichever stage answered and whether or not the call failed; an empty
\* normalized text gets none.
C10_OneDelivery ==
  \A h \in Handlers :
    Done(h)
      => /\ Accepted(h)
              => /\ Len(hs[h].posts) = 1
                 /\ hs[h].posts[1].channel = hs[h].channel_id
                 /\ hs[h].posts[1].text = hs[h].response_text
                 /\ hs[h].source \in {"date", "time", "curated", "generated",
                                      "gen_failed"}
         /\ hs[h].route = "empty_text" => hs[h].posts = << >>

\* The apology of a failed generative call could not be delivered.
C10_Witness ==
  \E h \in Handlers :
    /\ Done(h) /\ Accepted(h)
    /\ hs[h].source = "gen_failed"
    /\ Len(hs[h].posts) = 1
    /\ hs[h].posts[1].outcome = "SlackApiError"

\* Thread h has been let through the membership test with an event_id.
PassedGate(h) ==
  /\ hs[h].event_id # 0
  /\ hs[h].pc \notin {"idle", "verify", "parse", "dedup"}
  /\ hs[h].route # "duplicate"

\* C7: of two requests with the same event_id handled at the same time, at
\* most one is let through the membership test, and the event gets at most
\* one delivery attempt.
C7_OnePassesGate ==
  /\ \A h, g \in Handlers :
       h # g /\ PassedGate(h) /\ PassedGate(g)
         => hs[h].event_id # hs[g].event_id
  /\ \A e \in EventIds : e \notin evicted => deliveries[e] <= 1

\* C8: while another thread handles an accepted event of another
\* conversation, an accepted event whose generative call returned gets the
\* reply it gets when handled alone: the stripped text of the completion.
C8_ReplyAsIfSerial ==
  \A h, g \in Handlers :
    /\ Done(h) /\ Accepted(h)
    /\ Accepted(g) /\ hs[g].channel_id # hs[h].channel_id
    /\ hs[h].assistant_text # ""
    => /\ hs[h].status = 200
       /\ Len(hs[h].posts) = 1
       /\ hs[h].posts[1].text = hs[h].assistant_text
\* The event may be answered: no bot_id, no bot or edit subtype, and an
\* app_mention or a direct message.
Eligible(event) ==
  /\ event.bot_id = ""
  /\ event.subtype \notin {"bot_message", "message_changed"}
  /\ \/ event.type = "app_mention"
     \/ event.type = "message" /\ event.channel_type = "im"

\* Thread h is in the answer pipeline, or has called something outside.
Reached(h) ==
  \/ hs[h].pc \in {"text", "touch", "answer", "history", "store", "generate",
                   "append", "trim", "refresh", "send"}
  \/ hs[h].cleaned_text # ""
  \/ hs[h].posts # << >>
  \/ hs[h].gens > 0
  \/ hs[h].wikis > 0

\* Since the request of thread h arrived, conversations and
\* session_timestamps have lost entries at most: what is there is as it was.
OnlyPruned(h) ==
  /\ \A ch \in DOMAIN conversations :
       ch \in DOMAIN hs[h].pre.conv /\ conversations[ch] = hs[h].pre.conv[ch]
  /\ \A ch \in DOMAIN session_timestamps :
       ch \in DOMAIN hs[h].pre.ts /\ session_timestamps[ch] = hs[h].pre.ts[ch]

\* C11: a thread is in the answer pipeline, or has sent a reply or called
\* the lookup or the generative provider, only for an event that has no
\* bot_id, no bot_message or message_changed subtype and is an app_mention
\* or a direct message; a request with any other event changes
\* conversations and session_timestamps by pruning at most.
C11_OnlyEligibleAnswered ==
  \A h \in Handlers :
    /\ Reached(h) => Eligible(hs[h].event)
    /\ Done(h) /\ ~Eligible(hs[h].event) => OnlyPruned(h)

\* An app_mention that carries a bot_id has been ignored, after the prune
\* pass of its request removed a session.
C11_Witness ==
  \E h \in Handlers :
    /\ Done(h)
    /\ hs[h].event.bot_id # "" /\ hs[h].event.type = "app_mention"
    /\ hs[h].posts = << >> /\ hs[h].gens = 0
    /\ hs[h].status = 200
    /\ DOMAIN conversations # DOMAIN hs[h].pre.conv

\* C12: an accepted event whose normalized text is empty gets no reply, no
\* lookup and no generative call, and leaves the histories and timestamps
\* as the prune pass left them: nothing is created or changed.
C12_EmptyTextNoEffect ==
  \A h \in Handlers :
    Done(h) /\ Eligible(hs[h].event) /\ cleaned[hs[h].user_text] = ""
      => /\ hs[h].status = 200
         /\ hs[h].posts = << >>
         /\ hs[h].gens = 0
         /\ hs[h].wikis = 0
         /\ OnlyPruned(h)

\* A text made of a mention and a blank was dropped, and its conversation
\* has got no timestamp.
C12_Witness ==
  \E h \in Handlers :
    /\ Done(h) /\ Eligible(hs[h].event)
    /\ hs[h].user_text = "<@U1> "
    /\ hs[h].posts = << >>
    /\ hs[h].channel_id # ""
    /\ hs[h].channel_id \notin DOMAIN session_timestamps

\* C13: a request whose payload has type url_verification is answered at
\* once with 200 and the JSON object that holds the challenge of the
\* payload; the three stores are as they were and nothing was called.
C13_ChallengeEchoed ==
  \A h \in Handlers :
    hs[h].type = "url_verification"
      => /\ Done(h)
         /\ hs[h].status = 200
         /\ hs[h].body = "{'challenge':'" \o hs[h].challenge \o "'}"
         /\ processed_event_ids = hs[h].pre.ids
         /\ NoSessionEffect(h)

\* The handshake was answered while a session was due for pruning.
C13_Witness ==
  \E h \in Handlers :
    /\ Done(h) /\ hs[h].type = "url_verification"
    /\ hs[h].challenge = "abc123"
    /\ hs[h].body = "{'challenge':'abc123'}"
    /\ \E ch \in DOMAIN session_timestamps :
         now - session_timestamps[ch] > SESSION_TTL_SECONDS
\* Thread h has just gone through processed_event_ids.add(event_id) and
\* the eviction that follows it.
Recorded(h) == hs[h].pc = "prune" /\ hs[h].event_id # 0

\* C14: when no request is being handled, processed_event_ids holds at most
\* MAX_SEEN identifiers; and right after an identifier is recorded, the set
\* holds MAX_SEEN \div 2 identifiers if the insertion took it beyond
\* MAX_SEEN, and the set with the identifier added otherwise.
C14_SeenBounded ==
  /\ (\A h \in Handlers : ~InFlight(h))
       => Cardinality(processed_event_ids) <= MAX_SEEN
  /\ \A h \in Handlers :
       Recorded(h)
         => LET added == hs[h].pre.ids \cup {hs[h].event_id} IN
            IF Cardinality(added) > MAX_SEEN
            THEN /\ Cardinality(processed_event_ids) = MAX_SEEN \div 2
                 /\ processed_event_ids \subseteq added
            ELSE processed_event_ids = added

\* An insertion into a set of MAX_SEEN identifiers has left MAX_SEEN \div 2.
C14_Witness ==
  \E h \in Handlers :
    /\ Recorded(h)
    /\ Cardinality(hs[h].pre.ids) = MAX_SEEN
    /\ hs[h].event_id \notin hs[h].pre.ids
    /\ Cardinality(processed_event_ids) = MAX_SEEN \div 2

\* C15: the identifier just recorded is in processed_event_ids after the
\* eviction, and a request whose event_id was recorded by the request
\* before it is dropped: an event_id gets one delivery attempt at most.
C15_NewestKept ==
  /\ \A h \in Handlers :
       Recorded(h) => hs[h].event_id \in processed_event_ids
  /\ \A e \in EventIds : deliveries[e] <= 1
\* The normalized texts of the model that ask for the date or the time:
\* "date" with "today" or "current" (or one of the two set phrases), "time"
\* with "now" or "current".
LocalFactTexts ==
  {c \in DOMAIN facts :
     LET lc == lower(c) IN
     \/ Contains("date", lc) /\ (Contains("today", lc) \/ Contains("current", lc))
     \/ lc \in {"what is today's date", "what's today's date"}
     \/ Contains("time", lc) /\ (Contains("now", lc) \/ Contains("current", lc))}

\* C16: an accepted event whose text asks for the date or the time, or is
\* similar enough to a curated key, is answered without a lookup or a
\* generative call, and no history is appended to or created: every stored
\* history is as it was when the request arrived, and a history that is
\* gone was removed by the prune pass of the request.
C16_LocalAnswerKeepsHistory ==
  \A h \in Handlers :
    /\ Done(h) /\ Accepted(h)
    /\ \/ hs[h].cleaned_text \in LocalFactTexts
       \/ SimilarKeys[hs[h].cleaned_text] # {}
    => /\ hs[h].gens = 0
       /\ hs[h].wikis = 0
       /\ Len(hs[h].posts) = 1
       /\ \A ch \in DOMAIN conversations :
            ch \in DOMAIN hs[h].pre.conv
              /\ conversations[ch] = hs[h].pre.conv[ch]
       /\ \A ch \in DOMAIN hs[h].pre.conv :
            \/ ch \in DOMAIN conversations
            \/ /\ ch \in DOMAIN hs[h].pre.ts
               /\ hs[h].now_ts - hs[h].pre.ts[ch] > SESSION_TTL_SECONDS

\* The time was told in a conversation that has a history, and the history
\* is the one it had.
C16_Witness ==
  \E h \in Handlers :
    /\ Done(h) /\ Accepted(h)
    /\ hs[h].cleaned_text = "time now"
    /\ Len(hs[h].posts) = 1
    /\ hs[h].channel_id \in DOMAIN conversations
    /\ conversations[hs[h].channel_id] = hs[h].pre.conv[hs[h].channel_id]
    /\ Len(conversations[hs[h].channel_id]) = MAX_HISTORY
\* t is content without its leading and trailing whitespace.
StrippedOf(t, content) ==
  \E i \in 0..Len(content) :
    \E j \in i..Len(content) :
      /\ t = SubSeq(content, i + 1, j)
      /\ \A k \in (1..i) \cup ((j + 1)..Len(content)) :
           Char(content, k) \in Whitespace
      /\ t # "" => /\ Char(t, 1) \notin Whitespace
                   /\ Char(t, Len(t)) \notin Whitespace

\* The history of the conversation of thread h as the prune pass of its
\* request left it: the one stored when the request arrived, or none when
\* the session had expired.
HistoryAfterPrune(h) ==
  LET ch == hs[h].channel_id IN
  IF /\ ch \in DOMAIN hs[h].pre.conv
     /\ ~(/\ ch \in DOMAIN hs[h].pre.ts
          /\ hs[h].now_ts - hs[h].pre.ts[ch] > SESSION_TTL_SECONDS)
  THEN hs[h].pre.conv[ch]
  ELSE << >>

\* What a generated turn of thread h leaves, given the text of the reply.
TurnStored(h, text) ==
  LET ch == hs[h].channel_id IN
  /\ Len(hs[h].posts) = 1
  /\ hs[h].posts[1].text = text
  /\ ch \in DOMAIN conversations
  /\ ch \in DOMAIN session_timestamps
  /\ session_timestamps[ch] <= now

\* C17: requests handled one after another: after an accepted event whose
\* generative call returned, the stored history is the last MAX_HISTORY
\* entries of the history the prune pass left, the user entry of the
\* normalized text and the assistant entry of the returned text without
\* its leading and trailing whitespace; the reply is that stripped text;
\* and the step that refreshes the timestamp sets it to the clock's reading.
C17_GeneratedTurnStored ==
  /\ [](\A h \in Handlers :
          Done(h) /\ hs[h].source = "generated"
            => LET text == hs[h].assistant_text IN
               /\ StrippedOf(text, hs[h].content)
               /\ TurnStored(h, text)
               /\ conversations[hs[h].channel_id]
                    = LastN(HistoryAfterPrune(h)
                              \o <<Entry("user", hs[h].cleaned_text),
                                   Entry("assistant", text)>>,
                            MAX_HISTORY))
  /\ [][\A h \in Handlers :
          hs[h].pc = "refresh" /\ hs'[h].pc = "send"
            => /\ hs[h].channel_id \in DOMAIN session_timestamps'
               /\ session_timestamps'[hs[h].channel_id] = now]_vars

\* A generated turn on a history of MAX_HISTORY entries: the returned text
\* had whitespace around it, and the last two entries are the turn.
C17_Witness ==
  \E h \in Handlers :
    /\ Done(h) /\ hs[h].source = "generated"
    /\ hs[h].content # hs[h].assistant_text
    /\ Len(HistoryAfterPrune(h)) = MAX_HISTORY
    /\ conversations[hs[h].channel_id][MAX_HISTORY - 1]
         = Entry("user", hs[h].cleaned_text)
    /\ conversations[hs[h].channel_id][MAX_HISTORY] = Entry("assistant", "ok")
    /\ hs[h].posts[1].text = "ok"

\* C17 as stated: the history before the event, and the returned text as
\* it is.
C17_AsStated ==
  \A h \in Handlers :
    Done(h) /\ hs[h].source = "generated"
      => /\ TurnStored(h, hs[h].content)
         /\ conversations[hs[h].channel_id]
              = LastN(Get(hs[h].pre.conv, hs[h].channel_id, << >>)
                        \o <<Entry("user", hs[h].cleaned_text),
                             Entry("assistant", hs[h].content)>>,
                      MAX_HISTORY)
\* The session of the conversation of thread h was more than
\* SESSION_TTL_SECONDS old when the prune pass of its request read the clock.
SessionExpired(h) ==
  /\ hs[h].channel_id \in DOMAIN hs[h].pre.ts
  /\ hs[h].now_ts - hs[h].pre.ts[hs[h].channel_id] > SESSION_TTL_SECONDS

\* C18: requests handled one after another: the messages built for an
\* event of a conversation whose session had expired are the system message
\* and the user entry of the normalized text, nothing else.
C18_ExpiredHistoryNotSent ==
  \A h \in Handlers :
    hs[h].messages # << >> /\ SessionExpired(h)
      => /\ Len(hs[h].messages) = 2
         /\ hs[h].messages[1].role = "system"
         /\ hs[h].messages[2] = Entry("user", hs[h].cleaned_text)
         /\ hs[h].hist0 = << >>

\* The generative call was made for a conversation whose expired session
\* held MAX_HISTORY entries.
C18_Witness ==
  \E h \in Handlers :
    /\ Done(h) /\ hs[h].gens = 1 /\ SessionExpired(h)
    /\ Len(hs[h].pre.conv[hs[h].channel_id]) = MAX_HISTORY
    /\ Len(hs[h].messages) = 2
\* The normalized texts of the model that hold one of the search keywords.
SearchTexts ==
  {c \in DOMAIN facts : \E k \in SearchKeywords : Contains(k, lower(c))}

\* C19: the lookup is called at most once, and only for a text of the
\* generative path (no date/time query, no curated key similar enough) that
\* holds a search keyword, with WIKI_LOOKUP_ENABLED set; and when the lookup
\* returns nothing, the generative call is made once, the system prompt
\* carries no lookup context, and the reply of a call that returned is its
\* text, not an error message.
C19_LookupSilent ==
  \A h \in Handlers :
    /\ hs[h].wikis > 0
         => /\ hs[h].wikis = 1
            /\ WIKI_LOOKUP_ENABLED
            /\ hs[h].cleaned_text \in SearchTexts
            /\ hs[h].cleaned_text \notin LocalFactTexts
            /\ SimilarKeys[hs[h].cleaned_text] = {}
    /\ Done(h) /\ hs[h].wikis = 1 /\ hs[h].wiki_ctx = ""
         => /\ hs[h].gens = 1
            /\ hs[h].status = 200
            /\ hs[h].messages[1].role = "system"
            /\ ~Contains("Wikipedia", hs[h].messages[1].content)
            /\ Len(hs[h].posts) = 1
            /\ hs[h].content # ""
                 => /\ hs[h].posts[1].text = hs[h].assistant_text
                    /\ hs[h].posts[1].text # APOLOGY

\* The lookup returned nothing and the generated text was the reply.
C19_Witness ==
  \E h \in Handlers :
    /\ Done(h) /\ hs[h].wikis = 1 /\ hs[h].wiki_ctx = ""
    /\ hs[h].cleaned_text = "who am i"
    /\ hs[h].gens = 1
    /\ hs[h].posts[1].text = "ok"
\* C20: requests handled one after another: when no request is being
\* handled, every conversation that has a history in conversations has a
\* timestamp in session_timestamps.
C20_HistoryHasTimestamp ==
  (\A h \in Handlers : ~InFlight(h))
    => \A ch \in DOMAIN conversations : ch \in DOMAIN session_timestamps

\* A generative turn has started a history for a conversation that had
\* none, while another conversation has a timestamp and no history.
C20_Witness ==
  \E h \in Handlers :
    /\ Done(h) /\ hs[h].gens = 1
    /\ hs[h].channel_id \notin DOMAIN hs[h].pre.conv
    /\ hs[h].channel_id \in DOMAIN conversations
    /\ hs[h].channel_id \in DOMAIN session_timestamps
    /\ \E ch \in DOMAIN session_timestamps : ch \notin DOMAIN conversations
=============================================================================
